---- MODULE Spec2Model ----
(***************************************************************************)
(* NEMO/utilities.py: request-parameter parsing, timezone-aware time-range *)
(* extraction and validation, calendar enumeration and date formatting.    *)
(*                                                                         *)
(* A naive datetime is a record [y, m, d, sec, us]: calendar date, second  *)
(* of the day (hour*3600 + minute*60 + second) and microsecond.  An aware  *)
(* datetime carries in addition off, its UTC offset in seconds.            *)
(***************************************************************************)
EXTENDS Integers, Sequences, FiniteSets, TLC

VARIABLES op, inp, out

vars == <<op, inp, out>>

(***************************************************************************)
(* Bounds of the model.                                                    *)
(***************************************************************************)
\* longest request-parameter text
MaxLen == 3
\* last year the clock can show
LastYear == 2024

(***************************************************************************)
(* Calendar arithmetic (calendar.monthrange, datetime + timedelta).        *)
(***************************************************************************)
isleap(year) == year % 4 = 0 /\ (year % 100 # 0 \/ year % 400 = 0)

monthrange(year, month) ==
    IF month = 2 THEN (IF isleap(year) THEN 29 ELSE 28)
    ELSE IF month \in {4, 6, 9, 11} THEN 30 ELSE 31

DT(y, m, d, sec, us) == [y |-> y, m |-> m, d |-> d, sec |-> sec, us |-> us]

Naive(a) == DT(a.y, a.m, a.d, a.sec, a.us)

NextDay(dt) ==
    IF dt.d < monthrange(dt.y, dt.m) THEN [dt EXCEPT !.d = dt.d + 1]
    ELSE IF dt.m < 12 THEN [dt EXCEPT !.m = dt.m + 1, !.d = 1]
    ELSE [dt EXCEPT !.y = dt.y + 1, !.m = 1, !.d = 1]

PrevDay(dt) ==
    IF dt.d > 1 THEN [dt EXCEPT !.d = dt.d - 1]
    ELSE IF dt.m > 1 THEN [dt EXCEPT !.m = dt.m - 1, !.d = monthrange(dt.y, dt.m - 1)]
    ELSE [dt EXCEPT !.y = dt.y - 1, !.m = 12, !.d = 31]

\* dt + timedelta(seconds=n), for -86400 < n < 86400
AddSeconds(dt, n) ==
    LET s == dt.sec + n IN
    IF s >= 86400 THEN [NextDay(dt) EXCEPT !.sec = s - 86400]
    ELSE IF s < 0 THEN [PrevDay(dt) EXCEPT !.sec = s + 86400]
    ELSE [dt EXCEPT !.sec = s]

\* dt + timedelta(days=days, seconds=seconds), days in {0, 1}
AddTimedelta(dt, days, seconds) ==
    LET a == AddSeconds(dt, seconds) IN
    IF days = 1 THEN NextDay(a) ELSE a

\* order of two naive datetimes (datetime.__lt__ on equal tzinfo)
Before(a, b) ==
    \/ a.y < b.y
    \/ a.y = b.y /\ a.m < b.m
    \/ a.y = b.y /\ a.m = b.m /\ a.d < b.d
    \/ a.y = b.y /\ a.m = b.m /\ a.d = b.d /\ a.sec < b.sec
    \/ a.y = b.y /\ a.m = b.m /\ a.d = b.d /\ a.sec = b.sec /\ a.us < b.us

(***************************************************************************)
(* Timezones.  A zone has a standard and a daylight-saving offset and the  *)
(* UTC instants between which daylight saving is in force.                 *)
(***************************************************************************)
Zones ==
    { [name |-> "UTC", std |-> 0, dst |-> 0,
       dstStart |-> DT(2024, 1, 1, 0, 0), dstEnd |-> DT(2024, 1, 1, 0, 0)],
      [name |-> "US/Eastern", std |-> -18000, dst |-> -14400,
       dstStart |-> DT(2024, 3, 10, 25200, 0), dstEnd |-> DT(2024, 11, 3, 21600, 0)],
      [name |-> "Europe/Berlin", std |-> 3600, dst |-> 7200,
       dstStart |-> DT(2024, 3, 31, 3600, 0), dstEnd |-> DT(2024, 10, 27, 3600, 0)],
      [name |-> "America/Havana", std |-> -18000, dst |-> -14400,
       dstStart |-> DT(2024, 3, 10, 18000, 0), dstEnd |-> DT(2024, 11, 3, 18000, 0)] }

\* utcoffset in force in zone tz at the UTC instant utc
UtcOffsetAt(tz, utc) ==
    IF ~Before(utc, tz.dstStart) /\ Before(utc, tz.dstEnd) THEN tz.dst ELSE tz.std

\* the offsets under which the wall-clock reading dt exists in zone tz
PossibleOffsets(tz, dt) ==
    {o \in {tz.std, tz.dst} : UtcOffsetAt(tz, AddSeconds(dt, -o)) = o}

Aware(dt, o) == [y |-> dt.y, m |-> dt.m, d |-> dt.d, sec |-> dt.sec, us |-> dt.us, off |-> o]

\* the UTC reading of an aware datetime
ToUTC(a) == AddSeconds(Naive(a), -a.off)

\* a < b on aware datetimes: the order of the instants
AwareBefore(a, b) == Before(ToUTC(a), ToUTC(b))

Ok(v) == [kind |-> "ok", v |-> v]

Raise(e) == [kind |-> "raise", error |-> e]

\* pytz tz.localize(dt, is_dst): is_dst is "False" (the default) or "None"
RECURSIVE tz_localize(_, _, _)
tz_localize(tz, dt, is_dst) ==
    LET possible == PossibleOffsets(tz, dt) IN
    IF Cardinality(possible) = 1
    THEN Ok(Aware(dt, CHOOSE o \in possible : TRUE))
    ELSE IF possible = {}
    THEN IF is_dst = "None" THEN Raise("NonExistentTimeError")
         ELSE \* wind the clock back six hours, localize, wind forward
              LET back == tz_localize(tz, AddSeconds(dt, -21600), is_dst)
              IN Ok(Aware(dt, back.v.off))
    ELSE IF is_dst = "None" THEN Raise("AmbiguousTimeError")
         ELSE Ok(Aware(dt, tz.std))

\* the zone None stands for "no input_timezone given"
None == [name |-> "None"]

\* localize(dt, tz) for a single datetime; current is the process timezone
localize(dt, tz, current) ==
    tz_localize(IF tz = None THEN current ELSE tz, dt, "False").v

\* localize(dt, tz) for a list of datetimes
localizeList(dts, tz, current) ==
    [i \in 1..Len(dts) |-> localize(dts[i], tz, current)]

\* django.utils.timezone.make_aware(value, timezone): localize with is_dst=None
make_aware(dt, tz) == tz_localize(tz, dt, "None")

(***************************************************************************)
(* The messages of the failures the range extractors raise.                *)
(***************************************************************************)
MissingStart == "The request parameters did not contain a start time."

MissingEnd == "The request parameters did not contain an end time."

InvalidStart == "The request parameters did not have a valid start time."

InvalidEnd == "The request parameters did not have a valid end time."

Inverted == "The request parameters have an end time that precedes the start time."

(***************************************************************************)
(* extract_times.  A parameter value is text that float() rejects, a float *)
(* that utcfromtimestamp() rejects (nan, inf, 1e20), or a timestamp given  *)
(* by its UTC reading [y, m, d, sec, us] plus sub, the quarter             *)
(* microseconds beyond us that the float still resolves.                   *)
(***************************************************************************)
TS(y, m, d, sec, us, sub) ==
    [kind |-> "ts", y |-> y, m |-> m, d |-> d, sec |-> sec, us |-> us, sub |-> sub]

\* the order of two timestamps as numbers
TsBefore(a, b) ==
    \/ Before(a, b)
    \/ ~Before(b, a) /\ a.sub < b.sub

\* datetime.utcfromtimestamp(float): microseconds rounded half to even
utcfromtimestamp(ts) ==
    LET up == \/ ts.sub = 3
              \/ ts.sub = 2 /\ ts.us % 2 = 1
    IN IF ~up THEN DT(ts.y, ts.m, ts.d, ts.sec, ts.us)
       ELSE IF ts.us < 999999 THEN DT(ts.y, ts.m, ts.d, ts.sec, ts.us + 1)
       ELSE AddSeconds(DT(ts.y, ts.m, ts.d, ts.sec, 0), 1)

\* one endpoint of extract_times: float, utcfromtimestamp, localize
extract_time(value, input_timezone, current) ==
    IF value.kind # "ts" THEN Raise("ValueError")
    ELSE Ok(localize(utcfromtimestamp(value), input_timezone, current))

\* extract_times validating 'start' before it looks 'end' up
extract_times_StartValidatedFirst(parameters, input_timezone, current) ==
    IF "start" \notin DOMAIN parameters THEN Raise(MissingStart)
    ELSE LET start == extract_time(parameters["start"], input_timezone, current) IN
         IF start.kind = "raise" THEN Raise(InvalidStart)
         ELSE IF "end" \notin DOMAIN parameters THEN Raise(MissingEnd)
         ELSE LET end == extract_time(parameters["end"], input_timezone, current) IN
              IF end.kind = "raise" THEN Raise(InvalidEnd)
              ELSE IF AwareBefore(end.v, start.v) THEN Raise(Inverted)
              ELSE Ok([start |-> start.v, end |-> end.v])

extract_times(parameters, input_timezone, current) ==
    IF "start" \notin DOMAIN parameters THEN Raise(MissingStart)
    ELSE IF "end" \notin DOMAIN parameters THEN Raise(MissingEnd)
    ELSE LET start == extract_time(parameters["start"], input_timezone, current) IN
         IF start.kind = "raise" THEN Raise(InvalidStart)
         ELSE LET end == extract_time(parameters["end"], input_timezone, current) IN
              IF end.kind = "raise" THEN Raise(InvalidEnd)
              ELSE IF AwareBefore(end.v, start.v) THEN Raise(Inverted)
              ELSE Ok([start |-> start.v, end |-> end.v])

(***************************************************************************)
(* extract_date / extract_dates.  A parameter value is text that is not of *)
(* the form %Y-%m-%d, or such a text given by its three numbers.           *)
(***************************************************************************)
DateText(y, m, d) == [kind |-> "date", y |-> y, m |-> m, d |-> d]

\* datetime.strptime(date, '%Y-%m-%d') followed by localize
extract_date(date, current) ==
    IF date.kind # "date" THEN Raise("ValueError")
    ELSE IF ~(date.m \in 1..12) THEN Raise("ValueError")
    ELSE IF ~(date.d \in 1..monthrange(date.y, date.m)) THEN Raise("ValueError")
    ELSE Ok(localize(DT(date.y, date.m, date.d, 0, 0), None, current))

\* extract_dates validating 'end' before 'start'
extract_dates_EndValidatedFirst(parameters, current) ==
    IF "start" \notin DOMAIN parameters THEN Raise(MissingStart)
    ELSE IF "end" \notin DOMAIN parameters THEN Raise(MissingEnd)
    ELSE LET end == extract_date(parameters["end"], current) IN
         IF end.kind = "raise" THEN Raise(InvalidEnd)
         ELSE LET start == extract_date(parameters["start"], current) IN
              IF start.kind = "raise" THEN Raise(InvalidStart)
              ELSE IF AwareBefore(end.v, start.v) THEN Raise(Inverted)
              ELSE Ok([start |-> start.v, end |-> end.v])

extract_dates(parameters, current) ==
    IF "start" \notin DOMAIN parameters THEN Raise(MissingStart)
    ELSE IF "end" \notin DOMAIN parameters THEN Raise(MissingEnd)
    ELSE LET start == extract_date(parameters["start"], current) IN
         IF start.kind = "raise" THEN Raise(InvalidStart)
         ELSE LET end == extract_date(parameters["end"], current) IN
              IF end.kind = "raise" THEN Raise(InvalidEnd)
              ELSE IF AwareBefore(end.v, start.v) THEN Raise(Inverted)
              ELSE Ok([start |-> start.v, end |-> end.v])

(***************************************************************************)
(* Inputs of the range extractors.                                         *)
(***************************************************************************)
Garbage == [kind |-> "text"]

NotATime == [kind |-> "nan"]

TimeValues ==
    { Garbage, NotATime,
      TS(2024, 3, 10, 7199, 999999, 0), TS(2024, 3, 10, 7199, 999999, 1),
      TS(2024, 3, 10, 7199, 999999, 2), TS(2024, 3, 10, 7199, 999999, 3),
      TS(2024, 3, 10, 9000, 0, 0), TS(2024, 3, 10, 10800, 0, 0),
      TS(2024, 3, 10, 1800, 0, 0),
      TS(2024, 11, 3, 3599, 0, 0), TS(2024, 11, 3, 5400, 0, 0),
      TS(2024, 11, 3, 5400, 0, 2), TS(2024, 11, 3, 7200, 0, 0),
      TS(LastYear, 12, 31, 86399, 999999, 3) }

DateValues ==
    { Garbage, DateText(2024, 13, 1), DateText(2023, 2, 29), DateText(2024, 4, 31),
      DateText(2024, 2, 29), DateText(2024, 3, 10), DateText(2024, 3, 11),
      DateText(2024, 11, 3), DateText(LastYear, 12, 31), DateText(2024, 1, 0) }

\* the dictionaries with keys among "start" and "end" and values in V
Params(V) == UNION { [K -> V] : K \in SUBSET {"start", "end"} }

\* The module holds no state across calls: a call starts from the idle state
\* and Return hands the result to the caller.
Idle == op = "idle"

ExtractTimes ==
    /\ Idle
    /\ \E parameters \in Params(TimeValues), input_timezone \in Zones \cup {None},
       current \in Zones :
        /\ op' = "extract_times"
        /\ inp' = [parameters |-> parameters, input_timezone |-> input_timezone,
                   current |-> current]
        /\ out' = extract_times(parameters, input_timezone, current)

ExtractDates ==
    /\ Idle
    /\ \E parameters \in Params(DateValues), current \in Zones :
        /\ op' = "extract_dates"
        /\ inp' = [parameters |-> parameters, current |-> current]
        /\ out' = extract_dates(parameters, current)

(***************************************************************************)
(* parse_start_and_end_date.  A free text is given by what dateutil's      *)
(* parser makes of it: a failure, or a naive datetime.                     *)
(***************************************************************************)
FreeText(y, m, d, sec, us) ==
    [kind |-> "datetime", y |-> y, m |-> m, d |-> d, sec |-> sec, us |-> us]

\* dateutil.parser.parse(text)
parse(text) ==
    IF text.kind # "datetime" THEN Raise("ParserError")
    ELSE Ok(DT(text.y, text.m, text.d, text.sec, text.us))

\* parse_start_and_end_date adding the whole day: timedelta(days=1)
parse_start_and_end_date_WholeDay(start, end, current) ==
    LET s == parse(start) IN
    IF s.kind = "raise" THEN s
    ELSE LET sa == make_aware(s.v, current) IN
    IF sa.kind = "raise" THEN sa
    ELSE LET e == parse(end) IN
    IF e.kind = "raise" THEN e
    ELSE LET ea == make_aware(e.v, current) IN
    IF ea.kind = "raise" THEN ea
    ELSE Ok([start |-> sa.v, end |-> AddTimedelta(ea.v, 1, 0)])

parse_start_and_end_date(start, end, current) ==
    LET s == parse(start) IN
    IF s.kind = "raise" THEN s
    ELSE LET sa == make_aware(s.v, current) IN
    IF sa.kind = "raise" THEN sa
    ELSE LET e == parse(end) IN
    IF e.kind = "raise" THEN e
    ELSE LET ea == make_aware(e.v, current) IN
    IF ea.kind = "raise" THEN ea
    ELSE Ok([start |-> sa.v, end |-> AddTimedelta(ea.v, 1, -1)])

FreeTexts ==
    { Garbage,
      FreeText(2024, 2, 29, 0, 0), FreeText(2024, 3, 1, 0, 0),
      FreeText(2024, 3, 10, 0, 0), FreeText(2024, 3, 10, 9000, 0),
      FreeText(2024, 3, 10, 43200, 500000), FreeText(2024, 11, 3, 5400, 0),
      FreeText(2024, 11, 3, 0, 0), FreeText(2023, 2, 28, 1, 1),
      FreeText(LastYear, 12, 31, 0, 0), FreeText(LastYear, 12, 31, 43200, 0) }

ParseStartAndEndDate ==
    /\ Idle
    /\ \E start \in FreeTexts, end \in FreeTexts, current \in Zones :
        /\ op' = "parse_start_and_end_date"
        /\ inp' = [start |-> start, end |-> end, current |-> current]
        /\ out' = parse_start_and_end_date(start, end, current)

(***************************************************************************)
(* Texts: sequences of characters, each a blank, a letter or a digit.      *)
(***************************************************************************)
Chars == {" ", "a", "7"}

Texts == UNION { [1..n -> Chars] : n \in 0..MaxLen }

Str(s) == [kind |-> "str", s |-> s]

\* a value that is no text (None, a list, ...)
NotText == [kind |-> "other"]

RECURSIVE lstrip(_)
lstrip(s) == IF s # <<>> /\ Head(s) = " " THEN lstrip(Tail(s)) ELSE s

RECURSIVE rstrip(_)
rstrip(s) ==
    IF s # <<>> /\ s[Len(s)] = " " THEN rstrip(SubSeq(s, 1, Len(s) - 1)) ELSE s

\* str.strip()
strip(s) == rstrip(lstrip(s))

(***************************************************************************)
(* quiet_int                                                               *)
(***************************************************************************)
RECURSIVE Digits(_)
Digits(s) == IF s = <<>> THEN 0 ELSE 10 * Digits(SubSeq(s, 1, Len(s) - 1)) + 7

\* int(value): a number is kept, a text of digits, blanks around it allowed,
\* is read, anything else fails
int(value) ==
    IF value.kind = "int" THEN Ok(value.n)
    ELSE IF value.kind # "str" THEN Raise("TypeError")
    ELSE LET t == strip(value.s) IN
         IF t # <<>> /\ \A i \in 1..Len(t) : t[i] = "7" THEN Ok(Digits(t))
         ELSE Raise("ValueError")

quiet_int(value_to_convert, default_upon_failure) ==
    LET r == int(value_to_convert) IN
    IF r.kind = "ok" THEN Ok(r.v) ELSE Ok(default_upon_failure)

QuietIntValues == {Str(s) : s \in Texts} \cup {NotText, [kind |-> "int", n |-> 42]}

QuietInt ==
    /\ Idle
    /\ \E value \in QuietIntValues, default \in {0, 5} :
        /\ op' = "quiet_int"
        /\ inp' = [value_to_convert |-> value, default_upon_failure |-> default]
        /\ out' = quiet_int(value, default)

(***************************************************************************)
(* parse_parameter_string                                                  *)
(***************************************************************************)
DefaultMaximumLength == 3000

\* parse_parameter_string whose handler never re-raises
parse_parameter_string_NeverRaises(parameter_dictionary, parameter_key, maximum_length, raise_on_error, default_return) ==
    LET failure ==
            IF parameter_key \notin DOMAIN parameter_dictionary THEN Raise("KeyError")
            ELSE IF parameter_dictionary[parameter_key].kind # "str"
            THEN Raise("AttributeError")
            ELSE LET parameter == strip(parameter_dictionary[parameter_key].s) IN
                 IF raise_on_error /\ Len(parameter) > maximum_length
                 THEN Raise("Exception")
                 ELSE Ok(Str(parameter))
    IN IF failure.kind = "ok" THEN failure
       ELSE Ok(default_return)

parse_parameter_string(parameter_dictionary, parameter_key, maximum_length, raise_on_error, default_return) ==
    LET failure ==
            IF parameter_key \notin DOMAIN parameter_dictionary THEN Raise("KeyError")
            ELSE IF parameter_dictionary[parameter_key].kind # "str"
            THEN Raise("AttributeError")
            ELSE LET parameter == strip(parameter_dictionary[parameter_key].s) IN
                 IF raise_on_error /\ Len(parameter) > maximum_length
                 THEN Raise("Exception")
                 ELSE Ok(Str(parameter))
    IN IF failure.kind = "ok" THEN failure
       ELSE IF raise_on_error THEN failure
       ELSE Ok(default_return)

ParameterDictionaries ==
    UNION { [K -> {Str(s) : s \in Texts} \cup {NotText}] : K \in SUBSET {"name"} }

ParseParameterString ==
    /\ Idle
    /\ \E dictionary \in ParameterDictionaries, key \in {"name", "note"},
          maximum_length \in {1, 2, DefaultMaximumLength},
          raise_on_error \in BOOLEAN, default_return \in {Str(<<>>), NotText} :
        /\ op' = "parse_parameter_string"
        /\ inp' = [parameter_dictionary |-> dictionary, parameter_key |-> key,
                   maximum_length |-> maximum_length,
                   raise_on_error |-> raise_on_error,
                   default_return |-> default_return]
        /\ out' = parse_parameter_string(dictionary, key, maximum_length,
                                         raise_on_error, default_return)

(***************************************************************************)
(* The clock: timezone.now() returns the current instant in UTC.           *)
(***************************************************************************)
ClockReadings ==
    UNION { { DT(y, m, 1, 0, 0), DT(y, m, monthrange(y, m), 86399, 999999) } :
            y \in 2023..LastYear, m \in 1..12 }

\* what a second reading of the clock can show after the reading now
LaterReadings(now) ==
    {now} \cup (IF now.us = 999999 THEN {AddSeconds([now EXCEPT !.us = 0], 1)} ELSE {})

(***************************************************************************)
(* month_list                                                              *)
(***************************************************************************)
\* the default of the argument since
DefaultSince == DT(2013, 11, 1, 0, 0)

\* dtstart moved k months on, its day and time kept
MonthAt(dtstart, k) ==
    LET idx == dtstart.y * 12 + (dtstart.m - 1) + k
    IN [dtstart EXCEPT !.y = idx \div 12, !.m = (idx % 12) + 1]

\* the first count months from the k-th on that have the day of dtstart
RECURSIVE rruleFrom(_, _, _)
rruleFrom(dtstart, k, count) ==
    IF count <= 0 THEN <<>>
    ELSE LET occ == MonthAt(dtstart, k) IN
         IF dtstart.d <= monthrange(occ.y, occ.m)
         THEN <<occ>> \o rruleFrom(dtstart, k + 1, count - 1)
         ELSE rruleFrom(dtstart, k + 1, count)

\* list(rrule(MONTHLY, dtstart=dtstart, count=count)): one occurrence a month
\* on the day of dtstart; a month that lacks the day is skipped and does not
\* count.  Every month has the days up to 28.
rrule(dtstart, count) ==
    IF dtstart.d <= 28 THEN [k \in 1..count |-> MonthAt(dtstart, k - 1)]
    ELSE rruleFrom(dtstart, 0, count)

reverse(seq) == [i \in 1..Len(seq) |-> seq[Len(seq) + 1 - i]]

\* the clock is read twice: once for the year, once for the month
month_list(since, now1, now2, current) ==
    LET month_count == (now1.y - since.y) * 12 + (now2.m - since.m) + 1
        result == rrule(since, month_count)
    IN reverse(localizeList(result, None, current))

Sinces ==
    {DefaultSince} \cup
    { DT(y, m, d, 0, 0) : y \in 2023..LastYear, m \in {1, 2, 12}, d \in {1, 31} }

MonthList ==
    /\ Idle
    /\ \E since \in Sinces, now1 \in ClockReadings, current \in Zones :
       \E now2 \in LaterReadings(now1) :
        /\ op' = "month_list"
        /\ inp' = [since |-> since, now1 |-> now1, now2 |-> now2, current |-> current]
        /\ out' = Ok(month_list(since, now1, now2, current))

(***************************************************************************)
(* get_month_timeframe                                                     *)
(***************************************************************************)
\* date=None
NoDate == [kind |-> "none"]

\* get_month_timeframe taking February for 28 days in every year
get_month_timeframe_NoLeapDay(date, now, current) ==
    LET start == IF date # NoDate THEN parse(date) ELSE Ok(now) IN
    IF start.kind = "raise" THEN start
    ELSE LET first_of_the_month == localize(DT(start.v.y, start.v.m, 1, 0, 0), None, current)
             last_of_the_month ==
                 localize(DT(start.v.y, start.v.m, monthrange(2023, start.v.m),
                             86399, 0), None, current)
         IN Ok([start |-> first_of_the_month, end |-> last_of_the_month])

get_month_timeframe(date, now, current) ==
    LET start == IF date # NoDate THEN parse(date) ELSE Ok(now) IN
    IF start.kind = "raise" THEN start
    ELSE LET first_of_the_month == localize(DT(start.v.y, start.v.m, 1, 0, 0), None, current)
             last_of_the_month ==
                 localize(DT(start.v.y, start.v.m, monthrange(start.v.y, start.v.m),
                             86399, 0), None, current)
         IN Ok([start |-> first_of_the_month, end |-> last_of_the_month])

MonthTexts ==
    {NoDate, Garbage} \cup
    { FreeText(y, m, d, 0, 0) : y \in {1900, 2000, 2023, 2024}, m \in 1..12, d \in {1, 10, 28} }

GetMonthTimeframe ==
    /\ Idle
    /\ \E date \in MonthTexts, now \in ClockReadings, current \in Zones :
        \* the clock is read only when no date is given
        /\ date # NoDate => now = DT(2023, 1, 1, 0, 0)
        /\ op' = "get_month_timeframe"
        /\ inp' = [date |-> date, now |-> now, current |-> current]
        /\ out' = get_month_timeframe(date, now, current)

(***************************************************************************)
(* format_datetime                                                         *)
(***************************************************************************)
\* aware.astimezone(tz)
astimezone(a, tz) ==
    LET utc == ToUTC(a)
        o == UtcOffsetAt(tz, utc)
    IN Aware(AddSeconds(utc, o), o)

\* seq[i] as Python indexes a list: from 0, negative indices from the end
PyIndex(seq, i) ==
    IF 0 <= i /\ i < Len(seq) THEN Ok(seq[i + 1])
    ELSE IF -Len(seq) <= i /\ i < 0 THEN Ok(seq[Len(seq) + i + 1])
    ELSE Raise("IndexError")

suffixTeensAsUnits(day) ==
    IF (4 <= day /\ day <= 10) \/ (24 <= day /\ day <= 30) THEN Ok("th")
    ELSE PyIndex(<<"st", "nd", "rd">>, (day % 10) - 1)

\* the ordinal suffix of a day of the month
suffix(day) ==
    IF (4 <= day /\ day <= 20) \/ (24 <= day /\ day <= 30) THEN Ok("th")
    ELSE PyIndex(<<"st", "nd", "rd">>, (day % 10) - 1)

\* strftime("%A"): the name of the day of the week of a date
weekday(dt) ==
    LET t == <<0, 3, 2, 5, 0, 3, 5, 1, 4, 6, 2, 4>>
        yy == IF dt.m < 3 THEN dt.y - 1 ELSE dt.y
        w == (yy + (yy \div 4) - (yy \div 100) + (yy \div 400) + t[dt.m] + dt.d) % 7
    IN <<"Sunday", "Monday", "Tuesday", "Wednesday", "Thursday", "Friday",
         "Saturday">>[w + 1]

\* the rendered text, by its parts: weekday, month, day, suffix, year, and the
\* time on the 12-hour clock with the leading zero of the hour stripped
format_datetime(universal_time, current) ==
    LET local_time == astimezone(universal_time, current)
        day == local_time.d
        sfx == suffix(day)
        hour == local_time.sec \div 3600
    IN IF sfx.kind = "raise" THEN sfx
       ELSE Ok([weekday |-> weekday(local_time),
                month |-> local_time.m, day |-> day, suffix |-> sfx.v,
                year |-> local_time.y, hour |-> ((hour + 11) % 12) + 1,
                minute |-> (local_time.sec % 3600) \div 60,
                pm |-> hour >= 12])

UniversalTimes ==
    { Aware(DT(2024, 3, d, sec, 0), 0) : d \in 1..31, sec \in {0, 43500, 82800} }

FormatDatetime ==
    /\ Idle
    /\ \E universal_time \in UniversalTimes, current \in Zones :
        /\ op' = "format_datetime"
        /\ inp' = [universal_time |-> universal_time, current |-> current]
        /\ out' = format_datetime(universal_time, current)

Init ==
    /\ op = "idle"
    /\ inp = [none |-> TRUE]
    /\ out = [kind |-> "none"]

Return ==
    /\ ~Idle
    /\ op' = "idle"
    /\ inp' = [none |-> TRUE]
    /\ out' = [kind |-> "none"]

Next ==
    \/ ExtractTimes
    \/ ExtractDates
    \/ ParseStartAndEndDate
    \/ QuietInt
    \/ ParseParameterString
    \/ MonthList
    \/ GetMonthTimeframe
    \/ FormatDatetime
    \/ Return

Spec == Init /\ [][Next]_vars

(***************************************************************************)
(* Properties.                                                             *)
(***************************************************************************)
Present(key) == key \in DOMAIN inp.parameters

Param(key) == inp.parameters[key]

\* both keys hold timestamps that float() and utcfromtimestamp() accept
BothTimestamps ==
    /\ op = "extract_times"
    /\ Present("start") /\ Present("end")
    /\ Param("start").kind = "ts" /\ Param("end").kind = "ts"

\* C1: extract_times given valid timestamps with end_ts >= start_ts returns,
\* in every timezone, a pair with start <= end and never fails.
C1_OrderedTimestampsAccepted ==
    (BothTimestamps /\ ~TsBefore(Param("end"), Param("start")))
        => /\ out.kind = "ok"
           /\ ~AwareBefore(out.v.end, out.v.start)

\* C2: extract_times given timestamps with end_ts < start_ts fails, in every
\* timezone, with the inverted-range error.
C2_InvertedTimestampsRejected ==
    (BothTimestamps /\ TsBefore(Param("end"), Param("start")))
        => out = Raise(Inverted)

\* C3: both range extractors fail with the missing-start error whenever
\* 'start' is absent, and with the missing-end error whenever 'start' is
\* present and 'end' is absent.
C3_MissingKeyReported ==
    op \in {"extract_times", "extract_dates"}
        => /\ ~Present("start") => out = Raise(MissingStart)
           /\ (Present("start") /\ ~Present("end")) => out = Raise(MissingEnd)

C3_Witness ==
    /\ op = "extract_times"
    /\ Present("start") /\ Param("start") = Garbage
    /\ ~Present("end")
    /\ out = Raise(MissingEnd)

RangeOps ==
    {"parse_start_and_end_date", "extract_times", "extract_dates", "get_month_timeframe"}

\* C4: every pair returned by a range-producing operation has start <= end.
C4_ReturnedRangeOrdered ==
    (op \in RangeOps /\ out.kind = "ok") => ~AwareBefore(out.v.end, out.v.start)

\* the months from since to now, both included
MonthsThrough(since, now) == (now.y - since.y) * 12 + (now.m - since.m) + 1

MonthListOf(since, now, list) ==
    /\ Len(list) = MonthsThrough(since, now)
    /\ Naive(list[1]) = DT(now.y, now.m, 1, 0, 0)
    /\ Naive(list[Len(list)]) = DT(since.y, since.m, 1, 0, 0)
    /\ \A i \in 1..(Len(list) - 1) :
        /\ AwareBefore(list[i + 1], list[i])
        /\ MonthAt(Naive(list[i + 1]), 1) = Naive(list[i])

\* C5: month_list(since), for a starting month not later than the current
\* month, returns the first days of the months from the current month down to
\* the starting month: as many as (currentYear-sinceYear)*12 +
\* (currentMonth-sinceMonth) + 1, one month apart, descending.  The current
\* instant is any instant between the two readings of the clock.
C5_MonthListSpansSinceToNow ==
    (op = "month_list" /\ inp.since.d = 1)
        => \E now \in {inp.now1, inp.now2} :
            MonthsThrough(inp.since, now) >= 1 => MonthListOf(inp.since, now, out.v)

\* the day count of a month, from the calendar's rule
DaysIn(y, m) ==
    CASE m \in {1, 3, 5, 7, 8, 10, 12} -> 31
      [] m \in {4, 6, 9, 11} -> 30
      [] m = 2 -> IF (y % 4 = 0 /\ y % 100 # 0) \/ y % 400 = 0 THEN 29 ELSE 28

\* C6: get_month_timeframe(date) returns the range from day 1 of the date's
\* month at 00:00:00 local time to the last day of that month, by the exact
\* day count of the month, at 23:59:59 local time.
C6_MonthTimeframeSpansMonth ==
    (op = "get_month_timeframe" /\ inp.date.kind = "datetime")
        => /\ out.kind = "ok"
           /\ Naive(out.v.start) = DT(inp.date.y, inp.date.m, 1, 0, 0)
           /\ Naive(out.v.end) =
                  DT(inp.date.y, inp.date.m, DaysIn(inp.date.y, inp.date.m), 86399, 0)
           /\ out.v.start.off \in {inp.current.std, inp.current.dst}
           /\ out.v.end.off \in {inp.current.std, inp.current.dst}

C6_Witness ==
    /\ op = "get_month_timeframe"
    /\ inp.date = FreeText(2024, 2, 10, 0, 0)
    /\ Naive(out.v.start) = DT(2024, 2, 1, 0, 0)
    /\ Naive(out.v.end) = DT(2024, 2, 29, 86399, 0)

\* C7: format_datetime renders, for every day of the month 1..31, the English
\* ordinal suffix: st for 1, 21, 31; nd for 2, 22; rd for 3, 23; th otherwise;
\* the lookup never goes out of range.
C7_OrdinalSuffix ==
    op = "format_datetime"
        => /\ out.kind = "ok"
           /\ out.v.day \in 1..31
           /\ out.v.day = astimezone(inp.universal_time, inp.current).d
           /\ out.v.suffix = ( IF out.v.day \in {1, 21, 31} THEN "st"
                               ELSE IF out.v.day \in {2, 22} THEN "nd"
                               ELSE IF out.v.day \in {3, 23} THEN "rd"
                               ELSE "th" )

C7_Witness ==
    /\ op = "format_datetime"
    /\ out.kind = "ok"
    /\ out.v.day = 11
    /\ out.v.suffix = "th"

\* the end text parsed to midnight
EndAtMidnight ==
    /\ op = "parse_start_and_end_date"
    /\ out.kind = "ok"
    /\ inp.end.sec = 0 /\ inp.end.us = 0

LookupFails ==
    \/ inp.parameter_key \notin DOMAIN inp.parameter_dictionary
    \/ inp.parameter_dictionary[inp.parameter_key].kind # "str"

\* C9 as stated: parse_parameter_string with its default arguments propagates
\* the failure of a missing key or a value that is no text.
C9_ParseParameterStringPropagates ==
    ( /\ op = "parse_parameter_string"
      /\ inp.maximum_length = DefaultMaximumLength
      /\ ~inp.raise_on_error
      /\ inp.default_return = Str(<<>>)
      /\ LookupFails )
        => out.kind = "raise"

\* the input on which an operation other than the two parsers of single
\* values fails inside
InputFails ==
    \/ /\ op = "extract_times"
       /\ \E k \in {"start", "end"} : ~Present(k) \/ Param(k).kind # "ts"
    \/ /\ op = "extract_dates"
       /\ \E k \in {"start", "end"} :
            \/ ~Present(k)
            \/ Param(k).kind # "date"
            \/ Param(k).m \notin 1..12
            \/ Param(k).d \notin 1..DaysIn(Param(k).y, Param(k).m)
    \/ /\ op = "parse_start_and_end_date"
       /\ Garbage \in {inp.start, inp.end}
    \/ /\ op = "get_month_timeframe"
       /\ inp.date = Garbage

\* C9 amended: quiet_int, and parse_parameter_string called with
\* raise_on_error false (its default), turn an internal failure into the
\* caller-supplied default; parse_parameter_string with raise_on_error true
\* and every other operation propagate the failure.
C9_SwallowingConfined ==
    /\ (op = "quiet_int" /\ int(inp.value_to_convert).kind = "raise")
        => out = Ok(inp.default_upon_failure)
    /\ (op = "parse_parameter_string" /\ LookupFails)
        => IF inp.raise_on_error THEN out.kind = "raise"
           ELSE out = Ok(inp.default_return)
    /\ ( /\ op = "parse_parameter_string" /\ ~LookupFails /\ inp.raise_on_error
         /\ Len(strip(inp.parameter_dictionary[inp.parameter_key].s)) > inp.maximum_length )
        => out.kind = "raise"
    /\ InputFails => out.kind = "raise"

C9_Witness ==
    /\ op = "parse_parameter_string"
    /\ inp.parameter_key \notin DOMAIN inp.parameter_dictionary
    /\ ~inp.raise_on_error
    /\ inp.default_return = NotText
    /\ out = Ok(NotText)

\* a value the extractor of the operation accepts
ValidValue(v) ==
    IF op = "extract_times" THEN v.kind = "ts"
    ELSE /\ v.kind = "date"
         /\ v.m \in 1..12
         /\ v.d \in 1..DaysIn(v.y, v.m)

\* the localized instant of an accepted value
Localized(v) ==
    IF op = "extract_times"
    THEN localize(utcfromtimestamp(v), inp.input_timezone, inp.current)
    ELSE localize(DT(v.y, v.m, v.d, 0, 0), None, inp.current)

\* C10: the failure extract_times and extract_dates report is the first that
\* applies of: missing start, missing end, invalid start, invalid end,
\* inverted range (the localized end before the localized start); with none
\* applying the localized pair is returned.
C10_ValidationOrder ==
    op \in {"extract_times", "extract_dates"}
        => out = ( IF ~Present("start") THEN Raise(MissingStart)
                   ELSE IF ~Present("end") THEN Raise(MissingEnd)
                   ELSE IF ~ValidValue(Param("start")) THEN Raise(InvalidStart)
                   ELSE IF ~ValidValue(Param("end")) THEN Raise(InvalidEnd)
                   ELSE IF AwareBefore(Localized(Param("end")), Localized(Param("start")))
                        THEN Raise(Inverted)
                   ELSE Ok([start |-> Localized(Param("start")),
                            end |-> Localized(Param("end"))]) )

C10_Witness ==
    /\ op = "extract_dates"
    /\ Present("start") /\ Present("end")
    /\ ~ValidValue(Param("start")) /\ ~ValidValue(Param("end"))
    /\ out = Raise(InvalidStart)
====
